---- MODULE Spec2Model ----
(***************************************************************************)
(* Newtonbotics Lab Store API (main.py, schemas.py).                       *)
(*                                                                         *)
(* The three store endpoints are modelled as request handlers.  FastAPI    *)
(* runs "def" handlers on a thread pool, so requests can be in flight      *)
(* together: a handler is split at its calls to the document store, each   *)
(* store call being one atomic step.  list_products and create_order make  *)
(* one store call and are one step; a seed request is in flight in a slot  *)
(* between its store calls.                                                *)
(*                                                                         *)
(* Conventions: Optional[T] is a sequence, <<>> for None and <<v>> for a   *)
(* value; floats are integers in hundredths (9.99 is 999); a dict is a     *)
(* function over its keys; an e-mail address is a sequence of characters.  *)
(***************************************************************************)
EXTENDS Integers, Sequences, FiniteSets, TLC

VARIABLES
    product,   \* the "product" collection, in insertion order
    order,     \* the "order" collection, in insertion order
    nextId,    \* the store's next fresh identifier
    req,       \* the seed request in flight in each slot (between store calls)
    last,      \* the request that was answered last, with its response
    started    \* number of requests received so far

vars == <<product, order, nextId, req, last, started>>

\* ---------------------------------------------------------------- bounds
NSlots == 2
MaxRequests == 3

Slots == 1..NSlots

\* ------------------------------------------------------- python helpers
NoneV == <<>>
Some(v) == <<v>>
EmptyDict == [k \in {} |-> 0]

Min(a, b) == IF a < b THEN a ELSE b

Range(s) == {s[i] : i \in DOMAIN s}

\* --------------------------------------------------- the document store
\* store-native identifier and its string form (two hex digits here)
ObjectId(n) == [oid |-> n]
HexDigit(n) == <<"0","1","2","3","4","5","6","7","8","9","a","b","c","d","e","f">>[n + 1]
Str(id) == <<HexDigit((id.oid \div 16) % 16), HexDigit(id.oid % 16)>>

Lower(s) ==
    CASE s = "SERVO" -> "servo"
      [] s = "Panel" -> "panel"
      [] OTHER -> s

\* {"$regex": term, "$options": "i"}: text contains term, ignoring case
RegexI(term, text) ==
    \/ term = ""
    \/ <<Lower(term), text>> \in
         { <<"servo", "Precision Servo Mount">>, <<"servo", "servo">>,
           <<"panel", "Laser-Engraved Control Panel Plate">>, <<"panel", "panel">>,
           <<"pdb", "pdb">> }

\* one alternative of an $or list
MatchesClause(c, d) ==
    IF "title" \in DOMAIN c
    THEN RegexI(c.title["$regex"], d.title)
    ELSE \E i \in DOMAIN d.tags : RegexI(c.tags["$elemMatch"]["$regex"], d.tags[i])

\* does document d satisfy the filter expression flt (all keys must hold)
Matches(flt, d) ==
    \A k \in DOMAIN flt :
        CASE k = "price" ->
               /\ ("$gte" \in DOMAIN flt[k] => d.price >= flt[k]["$gte"])
               /\ ("$lte" \in DOMAIN flt[k] => d.price <= flt[k]["$lte"])
          [] k = "$or" -> \E i \in DOMAIN flt[k] : MatchesClause(flt[k][i], d)
          [] OTHER -> k \in DOMAIN d /\ d[k] = flt[k]

RECURSIVE FindAll(_, _)
\* the documents of s that satisfy flt, in the order of s
FindAll(s, flt) ==
    IF s = <<>> THEN <<>>
    ELSE IF Matches(flt, Head(s)) THEN <<Head(s)>> \o FindAll(Tail(s), flt)
         ELSE FindAll(Tail(s), flt)

Collection(name) == IF name = "product" THEN product ELSE order

\* find(collection, filter, limit) -> the first limit matching documents
get_documents(name, flt, limit) ==
    LET all == FindAll(Collection(name), flt)
    IN  SubSeq(all, 1, Min(limit, Len(all)))

\* insert(collection, document): the stored document carries a fresh _id
create_document(doc) == doc @@ [_id |-> ObjectId(nextId)]

\* ----------------------------------------------------- request records
Idle == [kind |-> "none", pc |-> "idle", input |-> EmptyDict, i |-> 0,
         inserted |-> 0, existing |-> <<>>, calls |-> <<>>, wrote |-> <<>>,
         status |-> 0, body |-> EmptyDict]

New(kind) == [Idle EXCEPT !.kind = kind]

Call(op, coll, ok) == [op |-> op, coll |-> coll, ok |-> ok]

Free(r) == req[r].pc = "idle" /\ started < MaxRequests

Done(rec, status, body) == [rec EXCEPT !.pc = "done", !.status = status, !.body = body]

\* ------------------------------------------------- GET /api/products
Truthy(o) == o # NoneV /\ o[1] # ""

Regex(q) == ("$regex" :> q) @@ ("$options" :> "i")

\* bug variant: "if min_price:" / "if max_price:" instead of "is not None"
PriceFilterTruthy(min_price, max_price) ==
    (IF max_price # NoneV /\ max_price[1] # 0 THEN "$lte" :> max_price[1] ELSE EmptyDict)
      @@ (IF min_price # NoneV /\ min_price[1] # 0 THEN "$gte" :> min_price[1] ELSE EmptyDict)

PriceFilter(min_price, max_price) ==
    (IF max_price # NoneV THEN "$lte" :> max_price[1] ELSE EmptyDict)
      @@ (IF min_price # NoneV THEN "$gte" :> min_price[1] ELSE EmptyDict)

FilterDict(q, category, min_price, max_price) ==
    (IF Truthy(category) THEN "category" :> category[1] ELSE EmptyDict)
      @@ (IF min_price # NoneV \/ max_price # NoneV
          THEN "price" :> PriceFilter(min_price, max_price) ELSE EmptyDict)
      @@ (IF Truthy(q)
          THEN "$or" :> << [title |-> Regex(q[1])],
                           [tags |-> ("$elemMatch" :> Regex(q[1]))] >>
          ELSE EmptyDict)

\* bug variant: p["id"] = str(p["_id"]) without the pop
AdaptKeepsId(p) ==
    IF "_id" \in DOMAIN p THEN [id |-> Str(p["_id"])] @@ p ELSE p

\* Convert ObjectId to string if present
Adapt(p) ==
    IF "_id" \in DOMAIN p
    THEN [f \in (DOMAIN p \ {"_id"}) \cup {"id"} |->
             IF f = "id" THEN Str(p["_id"]) ELSE p[f]]
    ELSE p

Query(q, category, min_price, max_price, limit) ==
    [q |-> q, category |-> category, min_price |-> min_price,
     max_price |-> max_price, limit |-> limit]

list_products(in, ok) ==
    LET filter_dict == FilterDict(in.q, in.category, in.min_price, in.max_price)
        products == get_documents("product", filter_dict, in.limit)
    IN  [New("list") EXCEPT !.pc = "done", !.input = in,
                     !.calls = <<Call("find", "product", ok)>>,
                     !.status = IF ok THEN 200 ELSE 500,
                     !.body = IF ok THEN [items |-> [i \in DOMAIN products |-> Adapt(products[i])]]
                                    ELSE [detail |-> "store error"]]

ListOver(queries) ==
    /\ started < MaxRequests
    /\ \E in \in queries, ok \in BOOLEAN : last' = list_products(in, ok)
    /\ started' = started + 1
    /\ UNCHANGED <<product, order, nextId, req>>

\* ------------------------------------- GET /api/products/sample-seed
samples ==
    << [title |-> "Precision Servo Mount",
        slug |-> "precision-servo-mount",
        description |-> "CNC-accurate 3D-printed mount for standard servos with M3 hardware.",
        category |-> "3d-printed",
        price |-> 999,
        in_stock |-> TRUE,
        images |-> <<"/products/servo-mount-1.jpg">>,
        tags |-> <<"mount", "3d print", "servo">>,
        specs |-> [dimensions_mm |-> "40x20x18", materials |-> <<"PLA+">>,
                   tolerance_mm |-> 20, mounting_pattern |-> "M3 16mm"]],
       [title |-> "Laser-Engraved Control Panel Plate",
        slug |-> "control-panel-plate",
        description |-> "Acrylic front panel with crisp vector engravings and pre-drilled holes.",
        category |-> "laser-engraved",
        price |-> 2400,
        in_stock |-> TRUE,
        images |-> <<"/products/panel-plate-1.jpg">>,
        tags |-> <<"panel", "acrylic", "engraved">>,
        specs |-> [dimensions_mm |-> "120x60x3", materials |-> <<"Acrylic">>]],
       [title |-> "Robotics Power Distribution Board",
        slug |-> "pdb-12v",
        description |-> "12V PDB with fused outputs, screw terminals, and status LEDs.",
        category |-> "electronics",
        price |-> 3950,
        in_stock |-> TRUE,
        images |-> <<"/products/pdb-12v-1.jpg">>,
        tags |-> <<"pdb", "12v", "electronics">>,
        specs |-> [voltage_range_v |-> "9-14V", current_max_a |-> 1000]] >>

\* bug variant: the "if existing: return" guard is missing
SeedFindNoGuard(r) ==
    /\ Free(r)
    /\ \E ok \in BOOLEAN :
         LET existing == get_documents("product", EmptyDict, 1)
             rec == [New("seed") EXCEPT !.calls = <<Call("find", "product", ok)>>,
                                 !.existing = IF ok THEN existing ELSE <<>>]
         IN  IF ~ok
             THEN last' = Done(rec, 500, [detail |-> "store error"]) /\ UNCHANGED req
             ELSE req' = [req EXCEPT ![r] = [rec EXCEPT !.pc = "insert", !.i = 1]]
                  /\ UNCHANGED last
    /\ started' = started + 1
    /\ UNCHANGED <<product, order, nextId>>

\* existing = get_documents("product", {}, limit=1); if existing: return
SeedFind(r) ==
    /\ Free(r)
    /\ \E ok \in BOOLEAN :
         LET existing == get_documents("product", EmptyDict, 1)
             rec == [New("seed") EXCEPT !.calls = <<Call("find", "product", ok)>>,
                                 !.existing = IF ok THEN existing ELSE <<>>]
         IN  IF ~ok
             THEN last' = Done(rec, 500, [detail |-> "store error"]) /\ UNCHANGED req
             ELSE IF existing # <<>>
             THEN last' = Done(rec, 200, [inserted |-> 0, message |-> "Products already exist"])
                  /\ UNCHANGED req
             ELSE req' = [req EXCEPT ![r] = [rec EXCEPT !.pc = "insert", !.i = 1]]
                  /\ UNCHANGED last
    /\ started' = started + 1
    /\ UNCHANGED <<product, order, nextId>>

\* bug variant: a failed insert is tried again instead of ending the request
SeedInsertRetry(r) ==
    /\ req[r].pc = "insert"
    /\ \E ok \in BOOLEAN :
         LET me == req[r]
             rec == [me EXCEPT !.calls = Append(@, Call("insert", "product", ok))]
         IN  IF ~ok
             THEN /\ Len(me.calls) < 4
                  /\ req' = [req EXCEPT ![r] = rec]
                  /\ UNCHANGED <<product, nextId, last>>
             ELSE LET rec2 == [rec EXCEPT !.inserted = @ + 1, !.i = @ + 1,
                                          !.wrote = Append(@, ObjectId(nextId))]
                  IN  /\ product' = Append(product, create_document(samples[me.i]))
                      /\ nextId' = nextId + 1
                      /\ IF me.i = Len(samples)
                         THEN /\ last' = Done(rec2, 200, [inserted |-> rec2.inserted])
                              /\ req' = [req EXCEPT ![r] = Idle]
                         ELSE /\ req' = [req EXCEPT ![r] = rec2]
                              /\ UNCHANGED last
    /\ UNCHANGED <<order, started>>

\* one turn of "for s in samples: create_document("product", s); inserted += 1"
\* (the last turn also returns {"inserted": inserted})
SeedInsert(r) ==
    /\ req[r].pc = "insert"
    /\ \E ok \in BOOLEAN :
         LET me == req[r]
             rec == [me EXCEPT !.calls = Append(@, Call("insert", "product", ok))]
         IN  IF ~ok
             THEN /\ last' = Done(rec, 500, [detail |-> "store error"])
                  /\ req' = [req EXCEPT ![r] = Idle]
                  /\ UNCHANGED <<product, nextId>>
             ELSE LET rec2 == [rec EXCEPT !.inserted = @ + 1, !.i = @ + 1,
                                          !.wrote = Append(@, ObjectId(nextId))]
                  IN  /\ product' = Append(product, create_document(samples[me.i]))
                      /\ nextId' = nextId + 1
                      /\ IF me.i = Len(samples)
                         THEN /\ last' = Done(rec2, 200, [inserted |-> rec2.inserted])
                              /\ req' = [req EXCEPT ![r] = Idle]
                         ELSE /\ req' = [req EXCEPT ![r] = rec2]
                              /\ UNCHANGED last
    /\ UNCHANGED <<order, started>>

\* ------------------------------------------------- POST /api/orders
JInt(n) == [tag |-> "int", n |-> n, s |-> ""]
JStr(s) == [tag |-> "str", n |-> 0, s |-> s]

OrderItemFields == {"product_id", "title", "price", "quantity"}
CustomerInfoFields == {"full_name", "email", "phone", "address_line1", "address_line2",
                       "city", "state", "postal_code", "country"}
OrderPayloadFields == {"items", "customer", "notes", "subtotal", "shipping", "total"}

\* main.py's OrderItem: every field present, quantity an int (no range)
ValidItem(it) == OrderItemFields \subseteq DOMAIN it /\ it.quantity.tag = "int"

\* main.py's CustomerInfo: every required field present, email any str
ValidCustomer(c) == (CustomerInfoFields \ {"address_line2"}) \subseteq DOMAIN c

\* main.py's OrderPayload as FastAPI validates the request body
ValidPayload(b) ==
    /\ (OrderPayloadFields \ {"notes"}) \subseteq DOMAIN b
    /\ \A i \in DOMAIN b.items : ValidItem(b.items[i])
    /\ ValidCustomer(b.customer)

\* payload.model_dump(): the declared fields only, defaults filled in
model_dump(b) ==
    [f \in OrderPayloadFields |->
        CASE f = "items" ->
               [i \in DOMAIN b.items |->
                  [g \in OrderItemFields |->
                     IF g = "quantity" THEN b.items[i].quantity.n ELSE b.items[i][g]]]
          [] f = "customer" ->
               [g \in CustomerInfoFields |->
                  IF g \in DOMAIN b.customer THEN b.customer[g] ELSE NoneV]
          [] f = "notes" -> IF "notes" \in DOMAIN b THEN b.notes ELSE NoneV
          [] OTHER -> b[f]]

\* bug variant: the status stamp keeps a caller-style value
StampPending(order_doc) == [payment_method |-> "cod", status |-> "pending"] @@ order_doc

Stamp(order_doc) == [payment_method |-> "cod", status |-> "received"] @@ order_doc

\* bug variant: the "if not payload.items" check is missing
create_order_NoEmptyCheck(b, ok) ==
    LET rec == [New("order") EXCEPT !.input = b]
    IN  IF ~ValidPayload(b)
        THEN Done(rec, 422, [detail |-> "validation error"])
        ELSE LET rec2 == [rec EXCEPT !.calls = <<Call("insert", "order", ok)>>]
             IN  IF ok
                 THEN Done([rec2 EXCEPT !.wrote = <<ObjectId(nextId)>>], 200,
                           [order_id |-> Str(ObjectId(nextId)), status |-> "received"])
                 ELSE Done(rec2, 500, [detail |-> "store error"])

create_order(b, ok) ==
    LET rec == [New("order") EXCEPT !.input = b]
    IN  IF ~ValidPayload(b)
        THEN Done(rec, 422, [detail |-> "validation error"])
        ELSE IF b.items = <<>>
        THEN Done(rec, 400, [detail |-> "Order must contain at least one item"])
        ELSE LET rec2 == [rec EXCEPT !.calls = <<Call("insert", "order", ok)>>]
             IN  IF ok
                 THEN Done([rec2 EXCEPT !.wrote = <<ObjectId(nextId)>>], 200,
                           [order_id |-> Str(ObjectId(nextId)), status |-> "received"])
                 ELSE Done(rec2, 500, [detail |-> "store error"])

OrderOver(bodies) ==
    /\ started < MaxRequests
    /\ \E b \in bodies, ok \in BOOLEAN :
         LET rec == create_order(b, ok)
         IN  /\ last' = rec
             /\ IF rec.wrote # <<>>
                THEN /\ order' = Append(order, create_document(Stamp(model_dump(b))))
                     /\ nextId' = nextId + 1
                ELSE UNCHANGED <<order, nextId>>
    /\ started' = started + 1
    /\ UNCHANGED <<product, req>>

\* ------------------------------------------------------ request inputs
GoodEmail == <<"a", "@", "b", ".", "c">>
BadEmail == <<"a", "b", ".", "c">>

Customer(email) ==
    [full_name |-> "Ada Byron", email |-> email, phone |-> "555-0100",
     address_line1 |-> "1 Lab Way", city |-> "Pune", state |-> "MH",
     postal_code |-> "411001", country |-> "IN"]

Item(quantity) ==
    [product_id |-> "01", title |-> "Precision Servo Mount", price |-> 999,
     quantity |-> quantity]

Body(items, email) ==
    [items |-> items, customer |-> Customer(email),
     subtotal |-> 999, shipping |-> 500, total |-> 1499]

\* fields OrderPayload does not declare
Extras == [payment_method |-> "card", status |-> "shipped"]

Bodies ==
    { Body(<<>>, GoodEmail),
      Body(<<Item(JInt(1))>>, GoodEmail) @@ Extras,
      Body(<<Item(JInt(1))>>, BadEmail),
      Body(<<Item(JInt(0))>>, GoodEmail),
      Body(<<Item(JStr("two"))>>, GoodEmail),
      Body(<<>>, GoodEmail) @@ Extras,
      [items |-> <<>>, subtotal |-> 0, shipping |-> 0, total |-> 0] }

Cats == { NoneV, Some(""), Some("laser-engraved") }
Mins == { NoneV, Some(0), Some(2400) }
Maxs == { NoneV, Some(0), Some(2400) }

Queries ==
    { Query(NoneV, category, min_price, max_price, 30) :
        category \in Cats, min_price \in Mins, max_price \in Maxs }
    \cup { Query(NoneV, NoneV, NoneV, NoneV, 1),
           Query(NoneV, Some(""), Some(2400), NoneV, 1),
           Query(Some("SERVO"), NoneV, NoneV, NoneV, 30),
           Query(Some(""), NoneV, NoneV, Some(2400), 30) }

ListProducts == ListOver(Queries)
CreateOrder == OrderOver(Bodies)

\* ------------------------------------------------------- specification
Init ==
    /\ product = <<>>
    /\ order = <<>>
    /\ nextId = 1
    /\ req = [r \in Slots |-> Idle]
    /\ last = Idle
    /\ started = 0

Next ==
    \/ ListProducts
    \/ CreateOrder
    \/ \E r \in Slots : SeedFind(r)
    \/ \E r \in Slots : SeedInsert(r)

Spec == Init /\ [][Next]_vars

\* ------------------------------------------------------------ properties
Requests == {req[r] : r \in Slots} \cup {last}

\* schemas.py's EmailStr: one "@", a local part, a dotted domain
ValidEmail(e) ==
    LET ats == {i \in DOMAIN e : e[i] = "@"}
    IN  /\ Cardinality(ats) = 1
        /\ LET at == CHOOSE i \in ats : TRUE
           IN  /\ at > 1
               /\ \E k \in (at + 2)..(Len(e) - 1) : e[k] = "."
               /\ e[at + 1] # "." /\ e[Len(e)] # "."

\* the steps that serve an order request (a list request leaves a list
\* record in last; a seed step leaves a seed record there, or changes req,
\* or leaves started alone)
OrderStep == started' = started + 1 /\ req' = req /\ last'.kind = "order"

\* C1: a POST /api/orders whose payload has items = [] is refused with a
\* client error (400 and the fixed message once the body is well-formed) and
\* makes no store call: both collections and the store's identifier counter
\* are the same after the request as before it.
C1_EmptyItemsNoStoreCall ==
    [][ (OrderStep /\ "items" \in DOMAIN last'.input /\ last'.input.items = <<>>)
        => /\ last'.status \in {400, 422}
           /\ (ValidPayload(last'.input) =>
                 /\ last'.status = 400
                 /\ last'.body = [detail |-> "Order must contain at least one item"])
           /\ last'.calls = <<>> /\ last'.wrote = <<>>
           /\ order' = order /\ product' = product /\ nextId' = nextId ]_vars

C1_Witness ==
    /\ last.kind = "order" /\ last.status = 400
    /\ last.input.items = <<>> /\ ValidPayload(last.input)
    /\ order # <<>>

\* C2: every document of the order collection has payment_method "cod" and
\* status "received", whatever the request supplied for these two fields.
C2_StoredOrdersStamped ==
    \A i \in DOMAIN order :
        /\ {"payment_method", "status"} \subseteq DOMAIN order[i]
        /\ order[i].payment_method = "cod"
        /\ order[i].status = "received"

C2_Witness ==
    /\ last.kind = "order" /\ last.status = 200
    /\ "payment_method" \in DOMAIN last.input /\ last.input.payment_method = "card"
    /\ last.input.status = "shipped"
    /\ \E i \in DOMAIN order : order[i]["_id"] = last.wrote[1]

\* C3: a POST /api/orders with one valid item and a customer e-mail that is
\* not a syntactically valid address is rejected at validation (422) and
\* never reaches storage: it makes no store call and inserts no order
\* document (stated for the requests none of whose store calls fails).
C3_InvalidEmailRejected ==
    (/\ last.kind = "order"
     /\ "customer" \in DOMAIN last.input
     /\ last.input.items = <<Item(JInt(1))>>
     /\ ~ValidEmail(last.input.customer.email)
     /\ \A i \in DOMAIN last.calls : last.calls[i].ok)
    => last.status = 422 /\ last.calls = <<>> /\ last.wrote = <<>>

\* C4: every item of every stored order document has quantity >= 1.
C4_StoredQuantityAtLeastOne ==
    \A i \in DOMAIN order : \A j \in DOMAIN order[i].items :
        order[i].items[j].quantity >= 1

\* the documents of the product collection a request inserted
WrittenBy(rec) == {d \in Range(product) : d["_id"] \in Range(rec.wrote)}

\* C5: a finished seed request whose find saw an empty product collection
\* and whose store calls all succeeded inserted exactly 3 documents, one per
\* category, and reports inserted = 3; a seed request whose find saw a
\* document inserted nothing, made no further store call and reports
\* inserted = 0 with the already-exists message.
C5_SeedGuard ==
    (last.kind = "seed" /\ last.calls[1].ok) =>
        /\ (last.existing = <<>> /\ \A i \in DOMAIN last.calls : last.calls[i].ok) =>
              /\ last.status = 200 /\ last.body = [inserted |-> 3]
              /\ Len(last.wrote) = 3
              /\ Cardinality(WrittenBy(last)) = 3
              /\ {d.category : d \in WrittenBy(last)}
                   = {"3d-printed", "laser-engraved", "electronics"}
        /\ last.existing # <<>> =>
              /\ last.wrote = <<>> /\ Len(last.calls) = 1
              /\ last.status = 200
              /\ last.body = [inserted |-> 0, message |-> "Products already exist"]

\* a seed answered with the already-exists message after a seed filled the
\* empty collection
C5_Witness ==
    /\ last.kind = "seed" /\ last.existing # <<>> /\ "message" \in DOMAIN last.body
    /\ Len(product) = 3
    /\ \A r \in Slots : req[r].pc = "idle"

\* the steps that serve a list request
ListStep == started' = started + 1 /\ req' = req /\ last'.kind = "list"

\* the documents of the product collection a list request has to return,
\* when a category counts as given under catGiven
Wanted(rec, catGiven) ==
    LET in == rec.input
    IN
    {d \in Range(product) :
        /\ catGiven => d.category = in.category[1]
        /\ in.min_price # NoneV => d.price >= in.min_price[1]
        /\ in.max_price # NoneV => d.price <= in.max_price[1]}

FilterIsConjunction(rec, catGiven) ==
    LET items == rec.body.items
        ids == {items[i].id : i \in DOMAIN items}
        wanted == {Str(d["_id"]) : d \in Wanted(rec, catGiven)}
    IN  /\ ids \subseteq wanted
        /\ Cardinality(ids) = Len(items)
        /\ Len(items) = Min(rec.input.limit, Cardinality(wanted))

\* C6 as stated: without a text term, list_products returns (up to the
\* limit) exactly the documents with category == C when a category is
\* given, and lo <= price <= hi for the bounds given.
C6_FilterOfGivenParameters ==
    [][ (ListStep /\ last'.status = 200 /\ last'.input.q = NoneV)
        => FilterIsConjunction(last', last'.input.category # NoneV) ]_vars

\* C6 amended: the same, where an empty category string counts as absent.
C6_FilterOfNonEmptyCategory ==
    [][ (ListStep /\ last'.status = 200 /\ last'.input.q = NoneV)
        => FilterIsConjunction(last', Truthy(last'.input.category)) ]_vars

C6_Witness ==
    /\ last.kind = "list" /\ last.status = 200 /\ last.input.q = NoneV
    /\ last.input.category = Some("laser-engraved")
    /\ last.input.min_price = Some(0) /\ last.input.max_price = Some(2400)
    /\ Len(last.body.items) = 1

\* C7: every product returned by GET /api/products has no _id field and a
\* string id that is the string form of the identifier of a stored product,
\* and every other field has the value seed inserted.
C7_RoundTrip ==
    (last.kind = "list" /\ last.status = 200) =>
        \A i \in DOMAIN last.body.items :
            LET p == last.body.items[i]
            IN  /\ "_id" \notin DOMAIN p
                /\ "id" \in DOMAIN p
                /\ \E d \in Range(product), k \in DOMAIN samples :
                      /\ p.id = Str(d["_id"])
                      /\ Len(p.id) = 2
                      /\ DOMAIN d = DOMAIN samples[k] \cup {"_id"}
                      /\ DOMAIN p = DOMAIN samples[k] \cup {"id"}
                      /\ \A f \in DOMAIN samples[k] : p[f] = samples[k][f] /\ d[f] = p[f]

C7_Witness ==
    /\ last.kind = "list" /\ last.status = 200
    /\ Len(last.body.items) = 3

\* C8 as stated: every request makes at most one store call.
C8_AtMostOneStoreCall ==
    \A rec \in Requests : Len(rec.calls) <= 1

\* C8 amended: a list or order request makes at most one store call; a seed
\* request makes one find followed by at most three inserts; no request
\* makes a store call after one of its store calls failed.
C8_StoreCallsPerRequest ==
    \A rec \in Requests :
        /\ rec.kind \in {"list", "order"} => Len(rec.calls) <= 1
        /\ rec.kind = "seed" =>
              /\ Len(rec.calls) <= 4
              /\ \A i \in DOMAIN rec.calls :
                    rec.calls[i].op = (IF i = 1 THEN "find" ELSE "insert")
        /\ \A i \in DOMAIN rec.calls : i < Len(rec.calls) => rec.calls[i].ok

C8_Witness ==
    /\ last.kind = "seed" /\ last.status = 200 /\ Len(last.calls) = 4
    /\ \E r \in Slots : req[r].pc = "insert" /\ Len(req[r].calls) = 3
    /\ order # <<>>

\* C9: a request that ends with an error response (4xx or 5xx) has inserted
\* nothing.
C9_NoPartialSuccess ==
    \A rec \in Requests :
        (rec.pc = "done" /\ rec.status >= 400) => rec.wrote = <<>>

\* C10: no two documents of the product collection share a slug, so the
\* collection never holds more than 3 documents.
C10_UniqueSlugs ==
    /\ \A i, j \in DOMAIN product : i # j => product[i].slug # product[j].slug
    /\ Len(product) <= 3

====
